---- MODULE Spec2Model ----
(***************************************************************************)
(* A model of server.py: the route registry and its key validation, the    *)
(* middleware chain, the sliding-window rate limiter, the request parser,  *)
(* the response serializer, the accept loop with its SIGINT handler and    *)
(* the per-connection worker.                                              *)
(*                                                                         *)
(* Text is modelled as a sequence of tokens.  A token is one character     *)
(* ("a", " ", "/", ":"), the two-character line break "\r\n", or a word    *)
(* that the code never looks inside ("GET", "HTTP/1.1", "Host").  The      *)
(* two non-ASCII characters are written "U+00E9" and "U+20AC".             *)
(***************************************************************************)
EXTENDS Integers, Sequences, FiniteSets

VARIABLES
    routes,                 \* Server.routes: route key -> stored callable
    beforeAllMiddlewares,   \* Server.beforeAllMiddlewares
    requests,               \* rate_limiter.requests: client ip -> timestamps
    now,                    \* the value time.time() returns
    pc,                     \* where the main thread is
    conn,                   \* the connection slots: state and peer address
    regResult,              \* outcome of the latest registration call
    last,                   \* what the latest worker run did
    seen,                   \* per client: its is_allowed calls since its first,
                            \* while the window of the first is open
    allowedAt,              \* per client: times, still within the window, of
                            \* the calls that returned True
    ws,                     \* the echo service: its event loop and the
                            \* per-connection handler tasks
    call                    \* is_allowed calls in progress, step by step

vars == <<routes, beforeAllMiddlewares, requests, now, pc, conn, regResult,
          last, seen, allowedAt, ws, call>>

----------------------------------------------------------------------------
(* Bounds of the model.                                                    *)

\* registration calls (registerHandler / register / static) before start
MaxReg == 2
\* beforeAll registrations
MaxGlobal == 2
\* connections open at the same time
MaxConn == 1
\* the clock stops ticking here
MaxTime == 3
\* RateLimiter.limit, scaled down from 100
Limit == 2
\* RateLimiter.window, scaled down from 60
Window == 2
\* echo connections
MaxEcho == 2
\* messages received on one echo connection
MaxMsg == 2
\* workers inside is_allowed at the same time
MaxCallers == 2

----------------------------------------------------------------------------
(* Sequence helpers.                                                       *)

RECURSIVE Reverse(_)
Reverse(s) ==
    IF s = <<>> THEN <<>> ELSE Append(Reverse(Tail(s)), Head(s))

Range(s) == {s[i] : i \in 1..Len(s)}

\* s[i:] of Python, i counted from 0
From(s, i) == IF i >= Len(s) THEN <<>> ELSE SubSeq(s, i + 1, Len(s))

\* s[:i] of Python
Upto(s, i) == IF i <= 0 THEN <<>> ELSE SubSeq(s, 1, IF i > Len(s) THEN Len(s) ELSE i)

\* whether sep occurs in s at 0-based offset i
OccursAt(s, sep, i) ==
    /\ i + Len(sep) <= Len(s)
    /\ \A j \in 1..Len(sep) : s[i + j] = sep[j]

\* str.find: 0-based offset of the first occurrence of sep, or -1
Find(s, sep) ==
    LET hits == {i \in 0..Len(s) : OccursAt(s, sep, i)}
    IN  IF hits = {} THEN -1
        ELSE CHOOSE i \in hits : \A j \in hits : i <= j

\* str.split(sep): the parts between the non-overlapping occurrences of sep,
\* found left to right
RECURSIVE Split(_, _)
Split(s, sep) ==
    LET i == Find(s, sep)
    IN  IF i = -1 THEN <<s>>
        ELSE <<Upto(s, i)>> \o Split(From(s, i + Len(sep)), sep)

----------------------------------------------------------------------------
(* Route keys and their validation.                                        *)

\* the alternatives of the pattern's group
Verbs == {"GET", "POST", "PUT", "DELETE", "HEAD", "OPTIONS", "PATCH"}

\* what \s matches
Whitespace == {" ", "\t", "\n", "\r", "\r\n", "\f"}

\* length of the longest prefix of s without whitespace: what [^\s]* consumes
RECURSIVE NonSpaceRun(_)
NonSpaceRun(s) ==
    IF s = <<>> \/ Head(s) \in Whitespace THEN 0 ELSE 1 + NonSpaceRun(Tail(s))

isPathValidUnanchored(path) ==
    /\ Len(path) >= 3
    /\ path[1] \in Verbs
    /\ path[2] = " "
    /\ path[3] = "/"

\* Server.__isPathValid: re.match of
\*   ^(GET|POST|PUT|DELETE|HEAD|OPTIONS|PATCH) /[^\s]*$
\* re.match anchors at the start; $ matches at the end of the string and
\* also just before a newline that ends the string.
isPathValid(path) ==
    /\ Len(path) >= 3
    /\ path[1] \in Verbs
    /\ path[2] = " "
    /\ path[3] = "/"
    /\ LET rest == From(path, 3 + NonSpaceRun(From(path, 3)))
       IN  rest = <<>> \/ rest = <<"\n">>

\* the stored callables: a stack of layers, outermost first, the route
\* function last
Handlers == {"h1", "h2"}

Fn(h) == <<h>>

\* middleware(func): the callable the decorator m returns around f
Wrap(m, f) == <<m>> \o f

\* func = middleware(func) for each middleware of ms in turn
RECURSIVE ApplyEach(_, _)
ApplyEach(ms, f) ==
    IF ms = <<>> THEN f ELSE ApplyEach(Tail(ms), Wrap(Head(ms), f))

chainMiddlewaresForward(middlewares, func) == ApplyEach(middlewares, func)

\* Server.__chainMiddlewares
chainMiddlewares(middlewares, func) == ApplyEach(Reverse(middlewares), func)

\* d[k] = v on a dict
SetItemKeep(d, k, v) ==
    [x \in DOMAIN d \cup {k} |-> IF x \in DOMAIN d THEN d[x] ELSE v]

SetItem(d, k, v) ==
    [x \in DOMAIN d \cup {k} |-> IF x = k THEN v ELSE d[x]]

EmptyDict == [x \in {} |-> <<>>]

\* the middleware argument of register: None, one middleware, or a list
NoMw == [t |-> "none", v |-> <<>>]
OneMw(m) == [t |-> "one", v |-> <<m>>]
MwList(ms) == [t |-> "list", v |-> ms]

\* the try/except wrapper that register's decorator puts around func
Wrapper(func) == Wrap("wrapper", Fn(func))

\* what register's decorator stores for func under the middleware argument
Decorated(middleware, func) ==
    IF middleware.t = "none" \/ middleware.v = <<>>
    THEN Wrapper(func)
    ELSE IF middleware.t = "list"
         THEN chainMiddlewares(middleware.v, Wrapper(func))
         ELSE Wrap(middleware.v[1], Wrapper(func))

----------------------------------------------------------------------------
(* The rate limiter.                                                       *)

IPs == {"ip1", "ip2"}

\* the list left as it is
KeepAll(ts, t) == ts

RECURSIVE Keep(_, _)
\* [t for t in ts if now - t < self.window]
Keep(ts, t) ==
    IF ts = <<>> THEN <<>>
    ELSE IF t - Head(ts) < Window
         THEN <<Head(ts)>> \o Keep(Tail(ts), t)
         ELSE Keep(Tail(ts), t)

is_allowed_inclusive(rq, client_ip, t) ==
    LET kept == Keep(rq[client_ip], t)
    IN  IF Len(kept) <= Limit
        THEN [ok |-> TRUE, requests |-> [rq EXCEPT ![client_ip] = Append(kept, t)]]
        ELSE [ok |-> FALSE, requests |-> [rq EXCEPT ![client_ip] = kept]]

is_allowed_recording(rq, client_ip, t) ==
    LET kept == Keep(rq[client_ip], t)
    IN  IF Len(kept) < Limit
        THEN [ok |-> TRUE, requests |-> [rq EXCEPT ![client_ip] = Append(kept, t)]]
        ELSE [ok |-> FALSE,
              requests |-> [rq EXCEPT ![client_ip] = Append(Tail(kept), t)]]

\* RateLimiter.is_allowed at time t: the answer and the map afterwards
is_allowed(rq, client_ip, t) ==
    LET kept == Keep(rq[client_ip], t)
    IN  IF Len(kept) < Limit
        THEN [ok |-> TRUE, requests |-> [rq EXCEPT ![client_ip] = Append(kept, t)]]
        ELSE [ok |-> FALSE, requests |-> [rq EXCEPT ![client_ip] = kept]]

----------------------------------------------------------------------------
(* Results of handlers and middlewares.                                    *)

\* a body value: a str, a dict {"k": v} or a bytes object, with its text
Str(v) == [t |-> "str", v |-> v]
Dict(v) == [t |-> "dict", v |-> v]
Bytes(v) == [t |-> "bytes", v |-> v]

\* what a call returns: a bare value, a tuple of 2, 3 or 4, or an exception
Bare(b) == [shape |-> "bare", body |-> b, code |-> "", headers |-> <<>>]
Pair(b, c) == [shape |-> "pair", body |-> b, code |-> c, headers |-> <<>>]
Triple(b, c, h) == [shape |-> "triple", body |-> b, code |-> c, headers |-> h]
Tuple4(b, c) == [shape |-> "tuple4", body |-> b, code |-> c, headers |-> <<>>]
Raise(e) == [shape |-> "raise", body |-> Str(<<>>), code |-> e, headers |-> <<>>]

\* headers[k] = v on a dict kept in insertion order
RECURSIVE HeaderSet(_, _, _)
HeaderSet(h, k, v) ==
    IF h = <<>> THEN <<<<k, v>>>>
    ELSE IF Head(h)[1] = k
         THEN <<<<k, v>>>> \o Tail(h)
         ELSE <<Head(h)>> \o HeaderSet(Tail(h), k, v)

\* headers.get(k, default)
RECURSIVE HeaderGet(_, _, _)
HeaderGet(h, k, default) ==
    IF h = <<>> THEN default
    ELSE IF Head(h)[1] = k THEN Head(h)[2] ELSE HeaderGet(Tail(h), k, default)

RateLimitBody ==
    <<"R","a","t","e"," ","l","i","m","i","t"," ","e","x","c","e","e","d","e","d">>

\* f"Internal Server Error: {str(e)}" for the exception text "x"
InternalErrorBody ==
    <<"I","n","t","e","r","n","a","l"," ","S","e","r","v","e","r"," ",
      "E","r","r","o","r",":"," ","x">>

FileNotFoundBody ==
    <<"F","i","l","e"," ","n","o","t"," ","f","o","u","n","d">>

\* what the registered functions h1 and h2 may do with a request
HandlerOutcomes ==
    { Bare(Str(<<"h","i">>)),
      Bare(Str(<<"U+00E9">>)),
      Bare(Dict(<<"U+20AC">>)),
      Pair(Str(<<"o","k">>), "201"),
      Triple(Str(<<"p">>), "200", <<<<"Content-Type", "text/html">>>>),
      Tuple4(Str(<<"q">>), "200"),
      Raise("Exception") }

\* serve_static for a file that exists and for one that does not
serve_static(exists) ==
    IF exists
    THEN Triple(Bytes(<<"<","p",">">>), "200", <<<<"Content-Type", "text/html">>>>)
    ELSE Pair(Str(FileNotFoundBody), "404")

StaticOutcomes == {serve_static(TRUE), serve_static(FALSE)}

Outcomes(h) == IF h = "static_handler" THEN StaticOutcomes ELSE HandlerOutcomes

\* headers.update({...}) of cors_middleware
CorsUpdate(h) ==
    HeaderSet(HeaderSet(HeaderSet(h,
        "Access-Control-Allow-Origin", "*"),
        "Access-Control-Allow-Methods", "GET, POST, PUT, DELETE, OPTIONS"),
        "Access-Control-Allow-Headers", "Content-Type")

\* the body of cors_middleware's wrapper once f(request) returned r
cors_middleware(r) ==
    CASE r.shape = "triple" -> Triple(r.body, r.code, CorsUpdate(r.headers))
      [] r.shape \in {"pair", "tuple4"} -> Triple(r.body, r.code, CorsUpdate(<<>>))
      [] r.shape = "bare" /\ r.body.t = "str" ->
            \* len, [0], [1] and [2] of a str are over its characters
            IF Len(r.body.v) = 3 THEN Raise("AttributeError")
            ELSE IF Len(r.body.v) < 2 THEN Raise("IndexError")
            ELSE Triple(Str(<<r.body.v[1]>>), r.body.v[2], CorsUpdate(<<>>))
      [] OTHER -> Raise("KeyError")

\* the user's pass-through middlewares
UserMiddlewares == {"mA", "mB"}

\* a limiter middleware that calls f even when is_allowed said no
rate_limit_middleware_calling(a, next) ==
    IF a.ok
    THEN [next EXCEPT !.trace = <<"rate_limit_middleware">> \o next.trace,
                      !.oks = <<TRUE>> \o next.oks]
    ELSE [result |-> Pair(Str(RateLimitBody), "429"),
          trace |-> <<"rate_limit_middleware">> \o next.trace,
          requests |-> next.requests,
          oks |-> <<FALSE>> \o next.oks]

\* rate_limit_middleware's wrapper: a is the answer of is_allowed, next the
\* call of f, made only when is_allowed said yes
rate_limit_middleware(a, next) ==
    IF a.ok
    THEN [next EXCEPT !.trace = <<"rate_limit_middleware">> \o next.trace,
                      !.oks = <<TRUE>> \o next.oks]
    ELSE [result |-> Pair(Str(RateLimitBody), "429"),
          trace |-> <<"rate_limit_middleware">>,
          requests |-> a.requests,
          oks |-> <<FALSE>>]

\* Calling the stored callable f for a request of client_ip at time t, the
\* route function answering out: the result, the layers entered in order,
\* the limiter's map afterwards and the answers of is_allowed.
RECURSIVE Call(_, _, _, _, _)
Call(f, client_ip, out, rq, t) ==
    LET layer == Head(f)
        inner == Call(Tail(f), client_ip, out, rq, t)
        enter(r) == [r EXCEPT !.trace = <<layer>> \o r.trace]
    IN  CASE layer = "rate_limit_middleware" ->
                rate_limit_middleware(
                    is_allowed(rq, client_ip, t),
                    Call(Tail(f), client_ip, out,
                         is_allowed(rq, client_ip, t).requests, t))
          [] layer = "cors_middleware" ->
                IF inner.result.shape = "raise" THEN enter(inner)
                ELSE enter([inner EXCEPT !.result = cors_middleware(inner.result)])
          [] layer = "wrapper" ->
                IF inner.result.shape = "raise"
                THEN enter([inner EXCEPT
                            !.result = Pair(Str(InternalErrorBody), "500")])
                ELSE enter(inner)
          [] layer \in UserMiddlewares -> enter(inner)
          [] OTHER ->
                [result |-> out, trace |-> <<layer>>, requests |-> rq, oks |-> <<>>]

\* the route function at the bottom of a stored callable
Innermost(f) == f[Len(f)]

----------------------------------------------------------------------------
(* The request parser.                                                     *)

CRLF == "\r\n"

ParseFailed(e) ==
    [error |-> e, verb |-> <<>>, path |-> <<>>, headers |-> <<>>, body |-> <<>>]

\* the loop over the header lines: line.index(':'), line[:idx], line[idx+2:]
RECURSIVE ParseHeaders(_, _)
ParseHeaders(lines, headers) ==
    IF lines = <<>> THEN [error |-> "none", headers |-> headers]
    ELSE LET line == Head(lines)
             idx == Find(line, <<":">>)
         IN  IF idx = -1 THEN [error |-> "ValueError", headers |-> headers]
             ELSE ParseHeaders(Tail(lines),
                               HeaderSet(headers, Upto(line, idx), From(line, idx + 2)))

\* Server.__parseRequest; an unpacking of the wrong number of parts and an
\* index() that finds nothing raise ValueError
parseRequest(reqstr) ==
    LET parts == Split(reqstr, <<CRLF, CRLF>>)
    IN  IF Len(parts) # 2 THEN ParseFailed("ValueError")
        ELSE
        LET headlines == Split(parts[1], <<CRLF>>)
            words == Split(headlines[1], <<" ">>)
        IN  IF Len(words) # 3 THEN ParseFailed("ValueError")
            ELSE
            LET hs == ParseHeaders(Tail(headlines), <<>>)
            IN  IF hs.error # "none" THEN ParseFailed(hs.error)
                ELSE [error |-> "none", verb |-> words[1], path |-> words[2],
                      headers |-> hs.headers, body |-> parts[2]]

\* the request texts json.loads accepts
JsonTexts == {<<"{}">>}

\* parse_body: which reading of the body it returns, or the exception
parse_body(request) ==
    LET content_type == HeaderGet(request.headers, <<"Content-Type">>, <<>>)
    IN  IF "application/json" \in Range(content_type)
        THEN IF request.body \in JsonTexts THEN "json" ELSE "JSONDecodeError"
        ELSE IF "application/x-www-form-urlencoded" \in Range(content_type)
             THEN "form"
             ELSE "raw"

----------------------------------------------------------------------------
(* The response serializer.                                                *)

\* bytes of one character under UTF-8
Utf8Len(ch) ==
    CASE ch = "U+00E9" -> 2
      [] ch = "U+20AC" -> 3
      [] OTHER -> 1

RECURSIVE Utf8Bytes(_)
\* len(text.encode())
Utf8Bytes(text) ==
    IF text = <<>> THEN 0 ELSE Utf8Len(Head(text)) + Utf8Bytes(Tail(text))

\* json.dumps of one character of a string (ensure_ascii is on)
JsonEscape(ch) ==
    CASE ch = "U+00E9" -> <<"\\", "u", "0", "0", "e", "9">>
      [] ch = "U+20AC" -> <<"\\", "u", "2", "0", "a", "c">>
      [] ch = "\"" -> <<"\\", "\"">>
      [] ch = "\\" -> <<"\\", "\\">>
      [] OTHER -> <<ch>>

RECURSIVE JsonString(_)
JsonString(v) ==
    IF v = <<>> THEN <<>> ELSE JsonEscape(Head(v)) \o JsonString(Tail(v))

\* json.dumps({"k": v})
json_dumps(v) ==
    <<"{", "\"", "k", "\"", ":", " ", "\"">> \o JsonString(v) \o <<"\"", "}">>

\* Server.__checkIfResultIsDict
checkIfResultIsDict(result) ==
    IF result.t = "dict" THEN Str(json_dumps(result.v)) ELSE result

\* str(resp): a str is itself, a bytes object gives its repr, a dict its repr
PyStr(resp) ==
    CASE resp.t = "str" -> resp.v
      [] resp.t = "bytes" -> <<"b", "'">> \o resp.v \o <<"'">>
      [] OTHER -> <<"{", "'", "k", "'", ":", " ", "'">> \o resp.v \o <<"'", "}">>

\* http.client.responses.get(code, 'Unknown'); a status code is written as
\* its decimal text
Reason(code) ==
    CASE code = "200" -> "OK"
      [] code = "201" -> "Created"
      [] code = "404" -> "Not Found"
      [] code = "429" -> "Too Many Requests"
      [] code = "500" -> "Internal Server Error"
      [] OTHER -> "Unknown"

\* Server.__writeReponse: the status line, the header lines in the order
\* written (the Content-Length line, kept apart here, is the second one),
\* the body text, and the number of bytes the body takes once encode() ran
writeReponse(resp, code, headers) ==
    LET text == PyStr(resp)
    IN  [code |-> code,
         reason |-> Reason(code),
         lines |-> <<<<"Content-Type", "application/json">>>> \o headers,
         contentLength |-> Len(text),
         body |-> text,
         wire |-> Utf8Bytes(text)]

----------------------------------------------------------------------------
(* One pass of the worker's loop body.                                     *)

NoResult == Bare(Str(<<>>))

\* the worker ends with exception e before any lookup
Quit(e, rq) ==
    [parsed |-> e, pathkey |-> <<>>, found |-> FALSE, selected |-> <<>>,
     trace |-> <<>>, oks |-> <<>>, result |-> NoResult, sent |-> <<>>,
     escaped |-> e, requests |-> rq]

\* line 199: no stored callable under the key
NotFound(key, rq) ==
    [parsed |-> "ok", pathkey |-> key, found |-> FALSE, selected |-> <<>>,
     trace |-> <<>>, oks |-> <<>>, result |-> NoResult,
     sent |-> <<writeReponse(Str(<<>>), "404", <<>>)>>,
     escaped |-> "none", requests |-> rq]

\* a worker that raises for a tuple of another length without writing
RespondRaiseOnly(key, handler, r) ==
    [parsed |-> "ok", pathkey |-> key, found |-> TRUE,
     selected |-> handler, trace |-> r.trace, oks |-> r.oks,
     result |-> r.result,
     sent |->
        CASE r.result.shape = "bare" ->
                <<writeReponse(checkIfResultIsDict(r.result.body), "200", <<>>)>>
          [] r.result.shape = "triple" ->
                <<writeReponse(checkIfResultIsDict(r.result.body),
                               r.result.code, r.result.headers)>>
          [] r.result.shape = "pair" ->
                <<writeReponse(checkIfResultIsDict(r.result.body),
                               r.result.code, <<>>)>>
          [] OTHER -> <<>>,
     escaped |->
        CASE r.result.shape = "raise" -> r.result.code
          [] r.result.shape \in {"bare", "pair", "triple"} -> "none"
          [] OTHER -> "ValueError",
     requests |-> r.requests]

\* lines 188-198: what is written for the result of the call r
Respond(key, handler, r) ==
    [parsed |-> "ok", pathkey |-> key, found |-> TRUE,
     selected |-> handler, trace |-> r.trace, oks |-> r.oks,
     result |-> r.result,
     sent |->
        CASE r.result.shape = "raise" -> <<>>
          [] r.result.shape = "bare" ->
                <<writeReponse(checkIfResultIsDict(r.result.body), "200", <<>>)>>
          [] r.result.shape = "triple" ->
                <<writeReponse(checkIfResultIsDict(r.result.body),
                               r.result.code, r.result.headers)>>
          [] r.result.shape = "pair" ->
                <<writeReponse(checkIfResultIsDict(r.result.body),
                               r.result.code, <<>>)>>
          [] OTHER -> <<writeReponse(Str(<<>>), "500", <<>>)>>,
     escaped |->
        CASE r.result.shape = "raise" -> r.result.code
          [] r.result.shape \in {"bare", "pair", "triple"} -> "none"
          [] OTHER -> "ValueError",
     requests |-> r.requests]

\* lines 179-186: the callable invoked for the stored one
Chained(globals, handler) ==
    IF globals # <<>> THEN chainMiddlewares(globals, handler) ELSE handler

pathkeyOfPath(verb, path) == path

\* line 177: f'{parsed["verb"]} {parsed["path"]}'
pathkey(verb, path) == verb \o <<" ">> \o path

\* lines 175-199 for the parsed request
Dispatch(table, globals, client_ip, out, rq, t, parsed) ==
    IF parsed.error # "none" THEN Quit(parsed.error, rq)
    ELSE IF parse_body(parsed) = "JSONDecodeError"
    THEN Quit("JSONDecodeError", rq)
    ELSE IF pathkey(parsed.verb, parsed.path) \notin DOMAIN table
    THEN NotFound(pathkey(parsed.verb, parsed.path), rq)
    ELSE Respond(pathkey(parsed.verb, parsed.path),
                 table[pathkey(parsed.verb, parsed.path)],
                 Call(Chained(globals, table[pathkey(parsed.verb, parsed.path)]),
                      client_ip, out, rq, t))

----------------------------------------------------------------------------
(* Inputs.                                                                 *)

KeyA == <<"GET", " ", "/", "a">>
KeyB == <<"POST", " ", "/", "a">>
KeyNl == <<"GET", " ", "/", "a", "\n">>
KeyNoSlash == <<"GET", " ", "a">>

\* route keys passed to the registration calls, valid and not
KeyInputs ==
    { KeyA, KeyB, KeyNl,
      <<"FOO", " ", "/", "a">>,
      KeyNoSlash,
      <<"GET", " ", "/", "a", " ", "b">>,
      <<"GET", " ", "/", "a", "\n", "\n">> }

\* middleware arguments passed to register
MwInputs ==
    { NoMw, MwList(<<>>),
      OneMw("rate_limit_middleware"),
      OneMw("cors_middleware"),
      MwList(<<"mA", "mB">>),
      MwList(<<"mB", "rate_limit_middleware", "mA">>),
      MwList(<<"cors_middleware", "rate_limit_middleware">>) }

\* url_path arguments passed to static
UrlInputs == {<<"/", "s">>, <<"s">>}

ReqLine(verb, path) == <<verb, " ">> \o path \o <<" ", "HTTP/1.1">>

HostLine == <<"Host", ":", " ", "x">>

JsonLine == <<"Content-Type", ":", " ", "application/json">>

Request(verb, path, headerLine, body) ==
    ReqLine(verb, path) \o <<CRLF>> \o headerLine \o <<CRLF, CRLF>> \o body

\* without the blank line
NoBlankLine == ReqLine("GET", <<"/", "a">>) \o <<CRLF>> \o HostLine

\* a request line of two words
ShortRequestLine == <<"GET", " ", "/", "a", CRLF>> \o HostLine \o <<CRLF, CRLF>>

\* a header line without a colon
NoColon == ReqLine("GET", <<"/", "a">>) \o <<CRLF, "Host", CRLF, CRLF>>

\* the three malformations the parser is specified to reject
Malformed == {NoBlankLine, ShortRequestLine, NoColon}

\* a body that holds a second blank line
TwoBlankLines ==
    Request("POST", <<"/", "a">>, HostLine, <<"b", CRLF, CRLF, "b">>)

\* a JSON request whose body is not JSON
BadJson == Request("POST", <<"/", "a">>, JsonLine, <<"b">>)

GetA == Request("GET", <<"/", "a">>, HostLine, <<>>)

WellFormed ==
    { GetA,
      Request("POST", <<"/", "a">>, HostLine, <<"b">>),
      Request("POST", <<"/", "a">>, JsonLine, <<"{}">>),
      Request("GET", <<"/", "a", "\n">>, HostLine, <<>>),
      Request("GET", <<"/", "s">>, HostLine, <<>>),
      Request("GET", <<"/", "b">>, HostLine, <<>>),
      Request("PUT", <<"/", "a">>, HostLine, <<>>) }

\* the decoded texts a recv may deliver
RawRequests == WellFormed \cup Malformed \cup {TwoBlankLines, BadJson}

AllOutcomes == HandlerOutcomes \cup StaticOutcomes

\* Server.__parseRequest of every text a recv may deliver, worked out once
ParsedRequests == [reqstr \in RawRequests |-> parseRequest(reqstr)]

\* Server.__handleConnection from the decoded text of one recv to the return
\* or the exception that ends the worker: what was parsed, the callable
\* looked up, the layers entered, the responses passed to sendall in order,
\* and the exception that left the function.
handleConnection(table, globals, client_ip, reqstr, out, rq, t) ==
    Dispatch(table, globals, client_ip, out, rq, t, ParsedRequests[reqstr])

Slots == 1..MaxConn

Min(a, b) == IF a < b THEN a ELSE b

----------------------------------------------------------------------------
(* State after construction.                                               *)

FreeSlot == [st |-> "free", ip |-> "none"]

NoRegistration ==
    [n |-> 0, key |-> <<>>, raised |-> FALSE, fn |-> <<>>, declared |-> <<>>,
     replaced |-> FALSE]

NoRun ==
    [parsed |-> "none", raw |-> <<>>, ip |-> "none", pathkey |-> <<>>,
     found |-> FALSE, selected |-> <<>>, trace |-> <<>>, oks |-> <<>>,
     out |-> NoResult, result |-> NoResult, sent |-> <<>>,
     escaped |-> "none", lockout |-> FALSE]

Unseen == [n |-> 0, first |-> 0, rejected |-> FALSE]

EchoSlots == 1..MaxEcho

\* an echo connection slot: the state of its handler task, the messages the
\* handler took from the connection, those it sent back, and the exception
\* that left the handler
NoTask == [st |-> "free", received |-> <<>>, sent |-> <<>>, raised |-> "none"]

\* the echo service before its thread runs
WsOff == [loop |-> "off", tasks |-> [e \in EchoSlots |-> NoTask]]

Callers == 1..MaxCallers

\* a worker that is not inside is_allowed
Idle == [pc |-> "idle", ip |-> "none", now |-> 0, kept |-> <<>>]

Init ==
    /\ routes = EmptyDict
    /\ beforeAllMiddlewares = <<>>
    /\ requests = [ip \in IPs |-> <<>>]
    /\ now = 0
    /\ pc = "boot"
    /\ conn = [c \in Slots |-> FreeSlot]
    /\ regResult = NoRegistration
    /\ last = NoRun
    /\ seen = [ip \in IPs |-> Unseen]
    /\ allowedAt = [ip \in IPs |-> <<>>]
    /\ ws = WsOff
    /\ call = [w \in Callers |-> Idle]

config == <<routes, beforeAllMiddlewares, regResult>>

limiter == <<requests, seen, allowedAt>>

serving == <<now, conn, last, limiter>>

aside == <<ws, call>>

----------------------------------------------------------------------------
(* Registration.                                                           *)

\* what registerHandler and register do with a key: raise ValueError when
\* it is not valid, else self.routes[path] = fn; declared is the middleware
\* list the caller gave, replaced whether another route function was stored
\* under the key before
Store(path, fn, declared) ==
    IF ~isPathValid(path)
    THEN /\ regResult' = [n |-> regResult.n + 1, key |-> path, raised |-> TRUE,
                          fn |-> <<>>, declared |-> <<>>, replaced |-> FALSE]
         /\ UNCHANGED routes
    ELSE /\ routes' = SetItem(routes, path, fn)
         /\ regResult' = [n |-> regResult.n + 1, key |-> path, raised |-> FALSE,
                          fn |-> fn, declared |-> declared,
                          replaced |-> /\ path \in DOMAIN routes
                                       /\ Innermost(routes[path]) # Innermost(fn)]

\* Server.registerHandler(path, handler)
registerHandler(path, handler) ==
    /\ pc = "boot"
    /\ regResult.n < MaxReg
    /\ Store(path, Fn(handler), <<>>)
    /\ UNCHANGED <<beforeAllMiddlewares, pc, serving, aside>>

\* Server.register(path, middleware) applied to func as a decorator
register(path, middleware, func) ==
    /\ pc = "boot"
    /\ regResult.n < MaxReg
    /\ Store(path, Decorated(middleware, func), middleware.v)
    /\ UNCHANGED <<beforeAllMiddlewares, pc, serving, aside>>

\* Server.static(url_path, file_path): register(f'GET {url_path}') applied
\* to static_handler
static(url_path) ==
    /\ pc = "boot"
    /\ regResult.n < MaxReg
    /\ Store(<<"GET", " ">> \o url_path, Decorated(NoMw, "static_handler"), <<>>)
    /\ UNCHANGED <<beforeAllMiddlewares, pc, serving, aside>>

\* Server.beforeAll() applied to func as a decorator
beforeAll(func) ==
    /\ pc = "boot"
    /\ Len(beforeAllMiddlewares) < MaxGlobal
    /\ beforeAllMiddlewares' = Append(beforeAllMiddlewares, func)
    /\ UNCHANGED <<routes, regResult, pc, serving, aside>>

----------------------------------------------------------------------------
(* The accept loop and the workers.                                        *)

\* Server.start_server up to the first accept: the echo service's thread is
\* started, then bind and listen
start_server ==
    /\ pc = "boot"
    /\ pc' = "accept"
    /\ ws' = [ws EXCEPT !.loop = "running"]
    /\ UNCHANGED <<config, serving, call>>

\* a client connects from address ip: the connection waits in the listen
\* queue
Connect(c, ip) ==
    /\ pc \in {"accept", "spawn"}
    /\ conn[c].st = "free"
    /\ \A d \in Slots : d < c => conn[d].st # "free"
    /\ conn' = [conn EXCEPT ![c] = [st |-> "backlog", ip |-> ip]]
    /\ last' = NoRun
    /\ UNCHANGED <<config, pc, now, limiter, aside>>

\* server_socket.accept() returns connection c
Accept(c) ==
    /\ pc = "accept"
    /\ conn[c].st = "backlog"
    /\ conn' = [conn EXCEPT ![c].st = "held"]
    /\ pc' = "spawn"
    /\ UNCHANGED <<config, now, last, limiter, aside>>

\* threading.Thread(target=self.__handleConnection, ...).start()
Spawn ==
    /\ pc = "spawn"
    /\ conn' = [c \in Slots |->
                   IF conn[c].st = "held" THEN [conn[c] EXCEPT !.st = "recv"]
                   ELSE conn[c]]
    /\ pc' = "accept"
    /\ UNCHANGED <<config, now, last, limiter, aside>>

\* a shutdown that would also end the workers blocked in recv
signal_handler_cancelling ==
    /\ pc \in {"accept", "spawn"}
    /\ pc' = "done"
    /\ conn' = [c \in Slots |-> IF conn[c].st = "recv" THEN FreeSlot ELSE conn[c]]
    /\ UNCHANGED <<config, now, last, limiter, aside>>

\* SIGINT: signal_handler raises GracefulExit in the main thread, wherever
\* in the loop body it is; the except clause breaks out of the loop
signal_handler ==
    /\ pc \in {"accept", "spawn"}
    /\ pc' = "done"
    /\ UNCHANGED <<config, serving, aside>>

\* recv returns b'': the loop breaks and the with block closes the socket
RecvClosed(c) ==
    /\ conn[c].st = "recv"
    /\ conn' = [conn EXCEPT ![c] = FreeSlot]
    /\ last' = [NoRun EXCEPT !.parsed = "eof", !.ip = conn[c].ip]
    /\ UNCHANGED <<config, pc, now, limiter, aside>>

\* the interpreter leaves once start_server has returned to the main module
\* and no worker thread is left; the echo thread is a daemon and ends with it
Exit ==
    /\ pc = "done"
    /\ \A c \in Slots : conn[c].st # "recv"
    /\ pc' = "exited"
    /\ ws' = [ws EXCEPT !.loop = "killed"]
    /\ UNCHANGED <<config, serving, call>>

----------------------------------------------------------------------------
(* The echo service.                                                       *)

\* the messages an echo connection delivers: a text frame as a str, a
\* binary frame as a bytes object
EchoMessages == {Str(<<"h", "i">>), Bytes(<<"h", "i">>)}

\* f"Echo: {message}"
EchoReply(message) == <<"Echo: ">> \o PyStr(message)

\* the ways the remote side's closing shows in the handler: the iteration
\* ends, or the pending await raises
Closings == {"StopAsyncIteration", "ConnectionClosedOK", "ConnectionClosedError"}

\* WebSocketServer.handler: the exception that leaves it when the iteration
\* or the send ends with exc
handler(exc) ==
    IF exc \in {"StopAsyncIteration", "ConnectionClosedOK", "ConnectionClosedError"}
    THEN "none" ELSE exc

\* websockets.serve starts handler for a new connection
ws_connect(e) ==
    /\ ws.loop = "running"
    /\ ws.tasks[e].st = "free"
    /\ \A d \in EchoSlots : d < e => ws.tasks[d].st # "free"
    /\ ws' = [ws EXCEPT !.tasks[e].st = "recv"]
    /\ UNCHANGED <<config, pc, serving, call>>

\* async for message in websocket: the next message arrives
ws_recv(e, message) ==
    /\ ws.loop = "running"
    /\ ws.tasks[e].st = "recv"
    /\ Len(ws.tasks[e].received) < MaxMsg
    /\ ws' = [ws EXCEPT !.tasks[e].st = "send",
                        !.tasks[e].received = Append(@, message)]
    /\ UNCHANGED <<config, pc, serving, call>>

\* await websocket.send(f"Echo: {message}")
ws_send(e) ==
    /\ ws.loop = "running"
    /\ ws.tasks[e].st = "send"
    /\ ws' = [ws EXCEPT
                !.tasks[e].st = "recv",
                !.tasks[e].sent =
                    Append(@, EchoReply(ws.tasks[e].received[Len(ws.tasks[e].received)]))]
    /\ UNCHANGED <<config, pc, serving, call>>

\* the remote side closes: the iteration ends or raises, or the send raises
ws_close(e, exc) ==
    /\ ws.loop = "running"
    /\ ws.tasks[e].st \in {"recv", "send"}
    /\ ws.tasks[e].st = "send" => exc # "StopAsyncIteration"
    /\ ws' = [ws EXCEPT !.tasks[e].st = "ended",
                        !.tasks[e].raised = handler(exc)]
    /\ UNCHANGED <<config, pc, serving, call>>

\* the times of ts that lie less than Window before t
InWindow(ts, t) == SelectSeq(ts, LAMBDA x : t - x < Window)

RECURSIVE Trues(_)
Trues(oks) ==
    IF oks = <<>> THEN 0 ELSE (IF Head(oks) THEN 1 ELSE 0) + Trues(Tail(oks))

\* the count of a client's calls stops once it passed Limit + 1 or the
\* window of its first call closed
Over == [n |-> Limit + 2, first |-> 0]

Counted(s, calls, t) ==
    IF calls = 0 \/ s.n = Limit + 2 THEN [n |-> s.n, first |-> s.first]
    ELSE IF s.n = 0 THEN [n |-> Min(calls, Limit + 2), first |-> t]
    ELSE IF s.n + calls >= Limit + 2 THEN Over
    ELSE [n |-> s.n + calls, first |-> s.first]

\* the results the route function that a request text reaches may give
Reached(reqstr) ==
    LET parsed == ParsedRequests[reqstr]
        key == pathkey(parsed.verb, parsed.path)
    IN  IF /\ parsed.error = "none"
           /\ parse_body(parsed) # "JSONDecodeError"
           /\ key \in DOMAIN routes
        THEN Outcomes(Innermost(routes[key]))
        ELSE {NoResult}

\* what a worker run r for the client at ip leaves behind; out is recorded
\* when the route function was entered
Ran(ip, reqstr, out, r) ==
    /\ requests' = r.requests
    /\ seen' = [seen EXCEPT ![ip] =
                 [n |-> Counted(@, Len(r.oks), now).n,
                  first |-> Counted(@, Len(r.oks), now).first,
                  rejected |-> IF r.oks = <<>> THEN @.rejected
                               ELSE ~r.oks[Len(r.oks)]]]
    /\ allowedAt' = [allowedAt EXCEPT ![ip] =
                      @ \o [i \in 1..Trues(r.oks) |-> now]]
    /\ last' = [parsed |-> r.parsed, raw |-> reqstr, ip |-> ip,
                pathkey |-> r.pathkey, found |-> r.found,
                selected |-> r.selected, trace |-> r.trace,
                oks |-> r.oks,
                out |-> IF r.found /\ Innermost(r.selected) \in Range(r.trace)
                        THEN out ELSE NoResult,
                result |-> r.result, sent |-> r.sent,
                escaped |-> r.escaped,
                lockout |-> /\ r.oks # <<>>
                            /\ seen[ip].rejected
                            /\ requests[ip] # <<>>
                            /\ now - Head(requests[ip]) >= Window]

\* recv returns the text reqstr on connection c and the worker runs the loop
\* body on it, the route function (if reached) answering out; every path
\* through the body leaves the function, and the with block closes the socket
Serve(c, reqstr, out) ==
    /\ conn[c].st = "recv"
    /\ out \in Reached(reqstr)
    /\ Ran(conn[c].ip, reqstr, out,
           handleConnection(routes, beforeAllMiddlewares, conn[c].ip, reqstr,
                            out, requests, now))
    /\ conn' = [conn EXCEPT ![c] = FreeSlot]
    /\ UNCHANGED <<config, pc, now, aside>>

\* time passes
Tick ==
    /\ now < MaxTime
    /\ now' = now + 1
    /\ allowedAt' = [ip \in IPs |-> InWindow(allowedAt[ip], now + 1)]
    /\ seen' = [ip \in IPs |->
                  IF seen[ip].n \in 1..(Limit + 1) /\ now + 1 - seen[ip].first >= Window
                  THEN [seen[ip] EXCEPT !.n = Limit + 2, !.first = 0]
                  ELSE seen[ip]]
    /\ UNCHANGED <<config, pc, conn, last, requests, aside>>

----------------------------------------------------------------------------
(* RateLimiter.is_allowed statement by statement, for workers that run it   *)
(* at the same time.                                                       *)

\* worker w enters is_allowed for client_ip and reads the clock
is_allowed_enter(w, client_ip) ==
    /\ call[w].pc = "idle"
    /\ Len(requests[client_ip]) <= Limit
    /\ Len(allowedAt[client_ip]) <= Limit
    /\ call' = [call EXCEPT ![w] = [pc |-> "prune", ip |-> client_ip,
                                    now |-> now, kept |-> <<>>]]
    /\ UNCHANGED <<config, pc, serving, ws>>

\* the list comprehension of the pruning statement is evaluated
is_allowed_prune(w) ==
    /\ call[w].pc = "prune"
    /\ call' = [call EXCEPT ![w].pc = "store",
                            ![w].kept = Keep(requests[call[w].ip], call[w].now)]
    /\ UNCHANGED <<config, pc, serving, ws>>

\* its value is stored under the client's key
is_allowed_store(w) ==
    /\ call[w].pc = "store"
    /\ requests' = [requests EXCEPT ![call[w].ip] = call[w].kept]
    /\ call' = [call EXCEPT ![w].pc = "check", ![w].kept = <<>>]
    /\ UNCHANGED <<config, pc, now, conn, last, seen, allowedAt, ws>>

\* if len(self.requests[client_ip]) < self.limit, else return False
is_allowed_check(w) ==
    /\ call[w].pc = "check"
    /\ call' = [call EXCEPT ![w] =
                  IF Len(requests[call[w].ip]) < Limit
                  THEN [@ EXCEPT !.pc = "append"]
                  ELSE Idle]
    /\ UNCHANGED <<config, pc, serving, ws>>

\* self.requests[client_ip].append(now); return True
is_allowed_append(w) ==
    /\ call[w].pc = "append"
    /\ requests' = [requests EXCEPT ![call[w].ip] = Append(@, call[w].now)]
    /\ allowedAt' = [allowedAt EXCEPT ![call[w].ip] = Append(@, call[w].now)]
    /\ call' = [call EXCEPT ![w] = Idle]
    /\ UNCHANGED <<config, pc, now, conn, last, seen, ws>>

----------------------------------------------------------------------------
(* Specifications.                                                         *)

Next ==
    \/ \E k \in KeyInputs, h \in Handlers : registerHandler(k, h)
    \/ \E k \in {KeyA, KeyNoSlash}, m \in {NoMw, MwList(<<>>)}, h \in Handlers :
            register(k, m, h)
    \/ \E u \in UrlInputs : static(u)
    \/ beforeAll("mA")
    \/ start_server
    \/ \E c \in Slots : Connect(c, "ip1")
    \/ \E c \in Slots : Accept(c)
    \/ Spawn
    \/ signal_handler
    \/ \E c \in Slots : RecvClosed(c)
    \/ \E c \in Slots, q \in RawRequests, o \in AllOutcomes \cup {NoResult} :
            Serve(c, q, o)

\* registration of routes, then the server running at one instant
Spec == Init /\ [][Next]_vars

NextChain ==
    \/ \E m \in MwInputs : register(KeyA, m, "h1")
    \/ \E m \in UserMiddlewares : beforeAll(m)
    \/ start_server
    \/ \E c \in Slots : Connect(c, "ip1")
    \/ \E c \in Slots : Accept(c)
    \/ Spawn
    \/ \E c \in Slots, o \in {Bare(Str(<<"h", "i">>)), Raise("Exception")} :
            Serve(c, GetA, o)

\* registration of one route behind middlewares, then the server running at
\* one instant
SpecChain == Init /\ [][NextChain]_vars

\* the state after a start-up that guards one route with the rate limiter:
\*   @server.register('GET /a', rate_limit_middleware)
\*   def h1(request): ...
\*   server.start_server()
InitLimited ==
    /\ routes = SetItem(EmptyDict, KeyA, Decorated(OneMw("rate_limit_middleware"), "h1"))
    /\ beforeAllMiddlewares = <<>>
    /\ requests = [ip \in IPs |-> <<>>]
    /\ now = 0
    /\ pc = "accept"
    /\ conn = [c \in Slots |-> FreeSlot]
    /\ regResult = [n |-> 1, key |-> KeyA, raised |-> FALSE,
                    fn |-> Decorated(OneMw("rate_limit_middleware"), "h1"),
                    declared |-> <<"rate_limit_middleware">>,
                    replaced |-> FALSE]
    /\ last = NoRun
    /\ seen = [ip \in IPs |-> Unseen]
    /\ allowedAt = [ip \in IPs |-> <<>>]
    /\ ws = [WsOff EXCEPT !.loop = "running"]
    /\ call = [w \in Callers |-> Idle]

NextLimited ==
    \/ \E c \in Slots, ip \in IPs : Connect(c, ip)
    \/ \E c \in Slots : Accept(c)
    \/ Spawn
    \/ \E c \in Slots : Serve(c, GetA, Bare(Str(<<"h", "i">>)))
    \/ Tick

\* the server running with the rate-limited route while time passes
SpecLimited == InitLimited /\ [][NextLimited]_vars

\* the server of InitLimited with one connection to its echo service, up to
\* the shutdown signal and the end of the process
NextShutdown ==
    \/ \E c \in Slots : Connect(c, "ip1")
    \/ \E c \in Slots : Accept(c)
    \/ Spawn
    \/ signal_handler
    \/ \E c \in Slots : RecvClosed(c)
    \/ \E c \in Slots : Serve(c, GetA, Bare(Str(<<"h", "i">>)))
    \/ Exit
    \/ ws_connect(1)
    \/ ws_recv(1, Str(<<"h", "i">>))
    \/ ws_send(1)
    \/ ws_close(1, "StopAsyncIteration")

SpecShutdown == InitLimited /\ [][NextShutdown]_vars

\* the echo service with its connections
NextEcho ==
    \/ \E e \in EchoSlots : ws_connect(e)
    \/ \E e \in EchoSlots, m \in EchoMessages : ws_recv(e, m)
    \/ \E e \in EchoSlots : ws_send(e)
    \/ \E e \in EchoSlots, x \in Closings : ws_close(e, x)

SpecEcho == InitLimited /\ [][NextEcho]_vars

\* workers of the rate-limited route inside is_allowed at the same time for
\* one client
NextRace ==
    \/ \E w \in Callers : is_allowed_enter(w, "ip1")
    \/ \E w \in Callers : is_allowed_prune(w)
    \/ \E w \in Callers : is_allowed_store(w)
    \/ \E w \in Callers : is_allowed_check(w)
    \/ \E w \in Callers : is_allowed_append(w)
    \/ Tick

SpecRace == InitLimited /\ [][NextRace]_vars

----------------------------------------------------------------------------
(* Properties.                                                             *)

\* the route functions, apart from the middleware layers
RouteFunctions == Handlers \cup {"static_handler"}

\* how often x occurs in s
Count(s, x) == Cardinality({i \in 1..Len(s) : s[i] = x})

\* the "VERB /path" of a well-formed request text: the tokens of the request
\* line before " HTTP/1.1"
RequestKey(raw) ==
    SubSeq(raw, 1, (CHOOSE i \in 1..Len(raw) : raw[i] = "HTTP/1.1") - 2)

\* a step in which a worker ran the loop body on a request
Served == \E c \in Slots : conn[c].st = "recv" /\ conn'[c].st = "free"
                           /\ last'.parsed # "eof"

\* a step in which a worker's request reached is_allowed
LimiterCall == Served /\ last'.oks # <<>>

\* C1: a well-formed request is dispatched to exactly the callable stored
\* under its "VERB /path" key when that key is registered - the global
\* middlewares and then the stored callable's layers run, and no other route
\* function; for every other verb and path nothing is invoked and the
\* response is 404 with an empty body.
C1_ExactDispatch ==
    last.raw \in WellFormed =>
        LET key == RequestKey(last.raw)
        IN  IF key \in DOMAIN routes
            THEN /\ last.found
                 /\ last.selected = routes[key]
                 /\ last.trace = beforeAllMiddlewares \o routes[key]
                 /\ \A h \in RouteFunctions :
                        h \in Range(last.trace) => h = Innermost(routes[key])
            ELSE /\ ~last.found
                 /\ last.trace = <<>>
                 /\ Len(last.sent) = 1
                 /\ last.sent[1].code = "404"
                 /\ last.sent[1].body = <<>>
                 /\ last.escaped = "none"

\* with two routes registered and a global middleware, a request for the
\* second key ran the middleware and that key's route function
C1_Witness ==
    /\ last.raw \in WellFormed
    /\ Cardinality(DOMAIN routes) = 2
    /\ beforeAllMiddlewares # <<>>
    /\ last.found
    /\ Innermost(routes[last.pathkey]) \in Range(last.trace)
    /\ last.pathkey = KeyB

\* the pattern ^(GET|POST|PUT|DELETE|HEAD|OPTIONS|PATCH) /\S*$ as re.match
\* reads it: a verb, a space, a slash, then characters none of which is
\* whitespace up to the end of the string or up to a newline that ends it
MatchesKeyPattern(k) ==
    \E n \in 3..Len(k) :
        /\ k[1] \in Verbs
        /\ k[2] = " "
        /\ k[3] = "/"
        /\ \A i \in 4..n : k[i] \notin Whitespace
        /\ n = Len(k) \/ (n = Len(k) - 1 /\ k[Len(k)] = "\n")

\* C5: a registration call whose key does not match the pattern raises at the
\* call and leaves the route table as it was, so every key of the route table
\* matches the pattern.
C5_InvalidKeyRejected ==
    /\ [](\A k \in DOMAIN routes : MatchesKeyPattern(k))
    /\ [][regResult' # regResult /\ ~MatchesKeyPattern(regResult'.key)
            => regResult'.raised /\ routes' = routes]_vars

\* a call with a key that does not match raised after another call stored a
\* route
C5_Witness ==
    /\ regResult.raised
    /\ ~MatchesKeyPattern(regResult.key)
    /\ DOMAIN routes # {}

\* C6: after a handler is registered under a key that held another, the
\* table has one entry for the key, it is the second callable, and a matching
\* request runs the second route function once and the first never.
C6_LastRegistrationWins ==
    (regResult.n > 0 /\ ~regResult.raised) =>
        /\ regResult.key \in DOMAIN routes
        /\ routes[regResult.key] = regResult.fn
        /\ regResult.replaced => Cardinality(DOMAIN routes) < regResult.n
        /\ (last.found /\ last.pathkey = regResult.key) =>
                /\ last.selected = regResult.fn
                /\ Count(last.trace, Innermost(regResult.fn)) = 1
                /\ \A h \in RouteFunctions :
                       h \in Range(last.trace) => h = Innermost(regResult.fn)

\* a key was registered for a second route function and then requested
C6_Witness ==
    /\ regResult.replaced
    /\ last.found
    /\ last.pathkey = regResult.key
    /\ Innermost(regResult.fn) \in Range(last.trace)

\* the layers of s up to and including the first x
UpTo(s, x) == SubSeq(s, 1, CHOOSE i \in 1..Len(s) :
                              s[i] = x /\ \A j \in 1..(i - 1) : s[j] # x)

\* C4: for a request of a registered route the global middlewares are
\* entered first, in registration order, then the route's middlewares in the
\* order of the list given to register, then the try/except wrapper and the
\* route function; a middleware that answers itself (the rate limiter
\* rejecting) ends the sequence there.
C4_MiddlewareOrder ==
    (last.found /\ ~regResult.raised) =>
        LET expected == beforeAllMiddlewares \o regResult.declared
                            \o <<"wrapper", Innermost(regResult.fn)>>
        IN  IF FALSE \in Range(last.oks)
            THEN last.trace = UpTo(expected, "rate_limit_middleware")
            ELSE last.trace = expected

\* two different global middlewares and a list of two route middlewares ran
\* around the route function
C4_Witness ==
    /\ last.found
    /\ Len(beforeAllMiddlewares) = 2
    /\ beforeAllMiddlewares[1] # beforeAllMiddlewares[2]
    /\ regResult.declared = <<"mA", "mB">>
    /\ "h1" \in Range(last.trace)

\* C2: a call of is_allowed for a client is allowed exactly when fewer than
\* Limit calls of that client were allowed less than Window before it; so the
\* client's first Limit calls within Window of its first are allowed and run
\* the handler, the next one within that Window is answered 429 "Rate limit
\* exceeded" without the handler, and other clients' entries are untouched.
C2_RateLimit ==
    [][LimiterCall =>
        LET ip == last'.ip
            ok == last'.oks[1]
        IN  /\ ok <=> Len(InWindow(allowedAt[ip], now)) < Limit
            /\ seen'[ip].n \in 1..Limit => ok
            /\ seen'[ip].n = Limit + 1 => ~ok
            /\ ok => Count(last'.trace, "h1") = 1
            /\ ~ok => /\ "h1" \notin Range(last'.trace)
                      /\ Len(last'.sent) = 1
                      /\ last'.sent[1].code = "429"
                      /\ last'.sent[1].body = RateLimitBody
            /\ \A other \in IPs \ {ip} : requests'[other] = requests[other]
      ]_vars

\* the client's call number Limit + 1 within the window of its first was
\* rejected while the other client had been served in that window
C2_Witness ==
    /\ last.oks = <<FALSE>>
    /\ seen[last.ip].n = Limit + 1
    /\ \E other \in IPs \ {last.ip} : allowedAt[other] # <<>>
    /\ last.sent[1].code = "429"

\* C3: a call made when Window or more has passed since the client's
\* earliest stored timestamp is allowed, and a rejected call stores nothing:
\* after it the client's list is the allowed calls still in the window.
C3_LockoutEnds ==
    [][LimiterCall =>
        LET ip == last'.ip
            ok == last'.oks[1]
        IN  /\ (requests[ip] # <<>> /\ now - Head(requests[ip]) >= Window) => ok
            /\ ~ok => /\ requests'[ip] = InWindow(allowedAt[ip], now)
                      /\ Len(requests'[ip]) = Limit
      ]_vars

\* a client whose latest call was rejected called again Window after its
\* earliest stored timestamp and was allowed
C3_Witness ==
    /\ last.lockout
    /\ last.oks = <<TRUE>>

\* C7: a request whose route function raises gets a 500 response and the
\* exception does not leave the worker, however the route was registered.
C7_HandlerErrorIs500 ==
    (last.found /\ last.out.shape = "raise") =>
        /\ last.escaped = "none"
        /\ Len(last.sent) = 1
        /\ last.sent[1].code = "500"

\* C8: the Content-Length of every response is the number of bytes its body
\* takes on the wire.
C8_ContentLengthIsByteLength ==
    \A i \in 1..Len(last.sent) : last.sent[i].contentLength = last.sent[i].wire

\* C9: malformed request bytes end the worker without an exception leaving
\* it and without any handler or middleware being entered.
C9_MalformedClosesQuietly ==
    last.raw \in Malformed =>
        /\ last.escaped = "none"
        /\ last.trace = <<>>

\* C10: every connection accept returned is handed to a worker.
C10_AcceptedHasWorker ==
    \A c \in Slots : conn[c].st = "held" => pc = "spawn"

\* the step in which the shutdown signal reaches the accept loop
Signalled == pc \in {"accept", "spawn"} /\ pc' = "done"

\* once the loop is left it stays left, and no connection is accepted or
\* handed to a worker
AcceptLoopLeft ==
    pc \in {"done", "exited"} =>
        /\ pc' \in {"done", "exited"}
        /\ \A c \in Slots : conn'[c].st \in {"held", "recv"} => conn'[c] = conn[c]

\* what is still possible once start_server has returned
StillRunning ==
    /\ ws.loop = "running"
    /\ \A c \in Slots :
           conn[c].st = "recv" =>
               /\ ENABLED RecvClosed(c)
               /\ ENABLED Serve(c, GetA, Bare(Str(<<"h", "i">>)))
    /\ \A e \in EchoSlots : ws.tasks[e].st = "send" => ENABLED ws_send(e)

\* C11: the shutdown signal ends the accept loop - start_server returns and
\* no connection is accepted or given a worker afterwards - while the step
\* leaves the workers and the echo service as they were: a worker blocked in
\* recv can still get its data or its end of stream, and the echo loop runs
\* on for as long as the process lives.
C11_ShutdownStopsAcceptOnly ==
    /\ [][Signalled => conn' = conn /\ ws' = ws /\ last' = last]_vars
    /\ [][AcceptLoopLeft]_vars
    /\ [](pc = "done" => StillRunning)

\* after the signal a worker is still blocked in recv and an echo handler is
\* about to answer a message
C11_Witness ==
    /\ pc = "done"
    /\ \E c \in Slots : conn[c].st = "recv"
    /\ \E e \in EchoSlots : ws.tasks[e].st = "send"

\* the worker of connection c leaves its loop
WorkerEnds(c) == conn[c].st = "recv" /\ conn'[c].st # "recv"

\* C12: a worker leaves its loop only when recv returned no data or an
\* exception was raised; after a response was sent it reads again.
C12_WorkerLoopsUntilClosed ==
    [][\A c \in Slots :
          WorkerEnds(c) => last'.parsed = "eof" \/ last'.escaped # "none"]_vars

\* C13: on every echo connection the messages sent back are the messages
\* received, in order, each behind "Echo: " - all of them but the one the
\* handler is about to answer or was answering when the remote side closed -
\* and no exception leaves a handler whose connection was closed.
C13_EchoInOrder ==
    \A e \in EchoSlots :
        LET task == ws.tasks[e]
        IN  /\ Len(task.sent) <= Len(task.received)
            /\ Len(task.sent) >= Len(task.received) - 1
            /\ task.st = "recv" => Len(task.sent) = Len(task.received)
            /\ \A i \in 1..Len(task.sent) :
                   task.sent[i] = <<"Echo: ">> \o task.received[i].v
            /\ task.raised = "none"
            /\ ws.loop = "running"

\* ts is in non-decreasing order
Sorted(ts) == \A i, j \in 1..Len(ts) : i < j => ts[i] <= ts[j]

\* every timestamp of ts is less than Window old at time t
Fresh(ts, t) == \A i \in 1..Len(ts) : t - ts[i] < Window

\* C14 as stated: in every state every client's stored timestamps are in
\* non-decreasing order and none of them is Window old or older.
C14_NeverStale ==
    \A ip \in IPs : Sorted(requests[ip]) /\ Fresh(requests[ip], now)

\* C14: every client's stored timestamps are always in non-decreasing order,
\* and right after an is_allowed call for a client none of that client's
\* stored timestamps is Window old or older; between calls they age.
C14_FreshAfterCall ==
    /\ [](\A ip \in IPs : Sorted(requests[ip]))
    /\ [][LimiterCall => Fresh(requests'[last'.ip], now)]_vars

\* a call that pruned the client's oldest timestamp and stored its own
\* behind a younger one
C14_Witness ==
    /\ last.oks = <<TRUE>>
    /\ Len(requests[last.ip]) = 2
    /\ requests[last.ip][1] > 0
    /\ requests[last.ip][1] < requests[last.ip][2]
    /\ requests[last.ip][2] = now

\* C15: whatever the interleaving of the workers' is_allowed calls, a
\* client's list never holds more than Limit timestamps, no more than Limit
\* calls within one window return True, and the timestamp of every call that
\* returned True stays stored while it is within the window.
C15_RaceFree ==
    \A ip \in IPs :
        /\ Len(requests[ip]) <= Limit
        /\ Len(InWindow(allowedAt[ip], now)) <= Limit
        /\ \A t \in Range(InWindow(allowedAt[ip], now)) :
               Count(InWindow(allowedAt[ip], now), t) <= Count(requests[ip], t)

\* C16: when the rate limiter in a chain answers without calling the
\* callable it wraps, the layers after it - the later middlewares, the
\* try/except wrapper, the route function - are not entered, and the one
\* response written is the limiter's 429 "Rate limit exceeded" as the layers
\* before it passed it back (cors_middleware adding its headers).
C16_ShortCircuit ==
    (last.found /\ FALSE \in Range(last.oks)) =>
        LET chain == beforeAllMiddlewares \o last.selected
            before == UpTo(chain, "rate_limit_middleware")
            outer == SubSeq(before, 1, Len(before) - 1)
        IN  /\ last.trace = before
            /\ "wrapper" \notin Range(last.trace)
            /\ Innermost(last.selected) \notin Range(last.trace)
            /\ Len(last.trace) < Len(chain)
            /\ last.result.body = Str(RateLimitBody)
            /\ last.result.code = "429"
            /\ last.escaped = "none"
            /\ last.sent =
                 << writeReponse(Str(RateLimitBody), "429",
                        IF "cors_middleware" \in Range(outer)
                        THEN CorsUpdate(<<>>) ELSE <<>>) >>

\* the limiter in the middle of a list, behind a global middleware, rejected
\* a request
C16_Witness ==
    /\ last.oks = <<FALSE>>
    /\ last.selected = <<"mB", "rate_limit_middleware", "mA", "wrapper", "h1">>
    /\ beforeAllMiddlewares # <<>>
    /\ Len(last.sent) = 1

\* C17: every global middleware is entered for every request that was
\* parsed, whatever its verb and path, registered or not.
C17_GlobalsOnEveryRequest ==
    last.parsed = "ok" =>
        \A i \in 1..Len(beforeAllMiddlewares) :
            beforeAllMiddlewares[i] \in Range(last.trace)

\* a worker ran the loop body and the callable it called returned a tuple of
\* a length other than 2 and 3
BadArity == Served /\ last'.found /\ last'.result.shape = "tuple4"

\* C18: for a result tuple whose length is neither 2 nor 3 the worker
\* writes one response, 500 with an empty body, then raises ValueError, and
\* the connection is closed as the worker ends.
C18_BadArityIs500ThenRaise ==
    /\ []((last.found /\ last.result.shape = "tuple4") =>
            /\ last.sent = <<writeReponse(Str(<<>>), "500", <<>>)>>
            /\ last.sent[1].code = "500"
            /\ last.sent[1].body = <<>>
            /\ last.escaped = "ValueError")
    /\ [][BadArity =>
            \E c \in Slots : conn[c].st = "recv" /\ conn'[c] = FreeSlot]_vars

\* a route function registered through register returned a tuple of four
C18_Witness ==
    /\ last.found
    /\ last.result.shape = "tuple4"
    /\ "wrapper" \in Range(last.trace)
    /\ Len(last.sent) = 1
    /\ last.escaped = "ValueError"

\* the values of the header lines of a response whose name is name
HeaderValues(lines, name) ==
    SelectSeq(lines, LAMBDA line : line[1] = name)

\* C19: every response carries one Content-Type line: application/json,
\* or the Content-Type of the result's headers when the result is a triple
\* that gives one.
C19_OneContentType ==
    \A i \in 1..Len(last.sent) :
        LET given == IF last.result.shape = "triple"
                     THEN HeaderValues(last.result.headers, "Content-Type")
                     ELSE <<>>
        IN  HeaderValues(last.sent[i].lines, "Content-Type") =
                IF given = <<>> THEN <<<<"Content-Type", "application/json">>>>
                ELSE given

\* C20: a request whose head is well-formed parses, and everything after the
\* first blank line, further blank lines included, is its body.
C20_SplitAtFirstBlankLine ==
    last.raw = TwoBlankLines =>
        /\ last.parsed = "ok"
        /\ last.escaped # "ValueError"
        /\ ParsedRequests[TwoBlankLines].body = <<"b", CRLF, CRLF, "b">>

====
